---- MODULE Spec2Model ----
(***************************************************************************)
(* Model of minecraft-log-reader (src/main.py): main() lists the log       *)
(* directory, keeps and sorts the file names that match                    *)
(* LOG_FILENAME_FORMAT, and for each file reads the text, splits it into   *)
(* entries with LOG_ENTRY_FORMAT, classifies every entry with the chain of *)
(* JOIN/LEAVE/ADVANCEMENT/DEATH/MESSAGE patterns and rewrites the four CSV *)
(* files.                                                                  *)
(*                                                                         *)
(* Text is modelled by its structure.  A file name is the record           *)
(*   [date, n, ext]   for the text  dddd-dd-dd-<n><ext>                    *)
(* (date: the eight digits, n: the digits of the counter).  A physical     *)
(* line of a log is the record                                             *)
(*   [stamp, source, head, tail]                                           *)
(* stamp : the six digits of a leading "[HH:MM:SS] " marker, << >> when    *)
(*         the line does not begin with the marker;                        *)
(* source: "INFO" when the marker is followed by the literal               *)
(*         "[Server thread/INFO] [net...DedicatedServer]: ", else other;   *)
(* head  : the first token of the message and its form: "word" (1 to 16    *)
(*         word characters and a space), "long" (17 or more word           *)
(*         characters), "angle" (<name> and a space);                      *)
(* tail  : the rest of the line, << phrase >> or << phrase, b >> when the  *)
(*         phrase is followed by " [b]".                                   *)
(***************************************************************************)
EXTENDS Integers, Sequences, FiniteSets, TLC

VARIABLES
    LOG_DIRECTORY,  \* the environment setting: "unset", "missing" or "logs"
    dir,            \* the file names in the directory os.listdir reads
    pc,             \* position of main(): start, next_file, classify, done, aborted
    error,          \* the exception that ended the run, "" while there is none
    log_files,      \* the sorted list of matching file names
    file_pos,       \* number of iterations of the file loop begun
    log_date,       \* date of the file being processed
    log,            \* decoded text of the file being processed: its physical lines
    log_entries,    \* LOG_ENTRY_FORMAT.findall(log)
    entry_pos,      \* number of entries of log_entries consumed
    event_stream,   \* the accumulated events
    origin,         \* history: for each event, the file and entry it came from
    output          \* the files under output/: file name -> rows

vars == << LOG_DIRECTORY, dir, pc, error, log_files, file_pos, log_date, log,
           log_entries, entry_pos, event_stream, origin, output >>

(***************************************************************************)
(* Bounds of the model.                                                    *)
(***************************************************************************)
MaxFiles == 2
MaxLines == 3

Digit == 0..9

(***************************************************************************)
(* File names.                                                             *)
(***************************************************************************)
FileName(date, n, ext) == [date |-> date, n |-> n, ext |-> ext]

FileNames ==
    { FileName(<<2,0,2,4,0,1,0,1>>, <<2>>,   ".log.gz"),
      FileName(<<2,0,2,4,0,1,0,1>>, <<1,0>>, ".log.gz"),
      FileName(<<2,0,2,4,0,1,0,2>>, <<1>>,   ".log.gz"),
      FileName(<<2,0,2,4,0,2,3,0>>, <<1>>,   ".log.gz"),
      FileName(<<2,0,2,4,0,1,0,3>>, <<1>>,   ".log") }

\* LOG_FILENAME_FORMAT.fullmatch(x): \d{4}-\d{2}-\d{2}-\d+\.log\.gz
LOG_FILENAME_FORMAT(x) ==
    /\ Len(x.date) = 8
    /\ Len(x.n) >= 1
    /\ x.ext = ".log.gz"

\* The code points of a file name, which Python's sorted() compares.
ExtCodes(ext) ==
    IF ext = ".log.gz" THEN <<46, 108, 111, 103, 46, 103, 122>>
                       ELSE <<46, 108, 111, 103>>

DigitCodes(ds) == [i \in 1..Len(ds) |-> 48 + ds[i]]

NameCodes(x) ==
    DigitCodes(SubSeq(x.date, 1, 4)) \o <<45>> \o
    DigitCodes(SubSeq(x.date, 5, 6)) \o <<45>> \o
    DigitCodes(SubSeq(x.date, 7, 8)) \o <<45>> \o
    DigitCodes(x.n) \o ExtCodes(x.ext)

\* a < b for two strings given by their code points
StrLess(a, b) ==
    \E k \in 1..Len(b) :
        /\ \A i \in 1..(k-1) : i <= Len(a) /\ a[i] = b[i]
        /\ IF k > Len(a) THEN k = Len(a) + 1 ELSE a[k] < b[k]

\* the names in descending order
RECURSIVE SortedReversed(_)
SortedReversed(S) ==
    IF S = {} THEN << >>
    ELSE LET x == CHOOSE y \in S : \A z \in S \ {y} : StrLess(NameCodes(z), NameCodes(y))
         IN  <<x>> \o SortedReversed(S \ {x})

\* sorted(names): ascending by code points
RECURSIVE sorted(_)
sorted(S) ==
    IF S = {} THEN << >>
    ELSE LET x == CHOOSE y \in S : \A z \in S \ {y} : StrLess(NameCodes(y), NameCodes(z))
         IN  <<x>> \o sorted(S \ {x})

(***************************************************************************)
(* Dates and times.                                                        *)
(***************************************************************************)
Num2(ds, i) == ds[i] * 10 + ds[i+1]
Num4(ds, i) == ds[i] * 1000 + ds[i+1] * 100 + ds[i+2] * 10 + ds[i+3]

IsLeap(y) == (y % 4 = 0 /\ y % 100 # 0) \/ y % 400 = 0

DaysInMonth(y, m) ==
    IF m = 2 THEN (IF IsLeap(y) THEN 29 ELSE 28)
    ELSE IF m \in {4, 6, 9, 11} THEN 30 ELSE 31

\* date.fromisoformat raises ValueError unless the digits are a calendar date
DateIsValid(ds) ==
    LET y == Num4(ds, 1)  m == Num2(ds, 5)  d == Num2(ds, 7)
    IN  y >= 1 /\ m >= 1 /\ m <= 12 /\ d >= 1 /\ d <= DaysInMonth(y, m)

date_fromisoformat(ds) ==
    [year |-> Num4(ds, 1), month |-> Num2(ds, 5), day |-> Num2(ds, 7)]

\* time.fromisoformat raises ValueError unless hour < 24, minute < 60, second < 60
TimeIsValid(ds) ==
    Num2(ds, 1) <= 23 /\ Num2(ds, 3) <= 59 /\ Num2(ds, 5) <= 59

time_fromisoformat(ds) ==
    [hour |-> Num2(ds, 1), minute |-> Num2(ds, 3), second |-> Num2(ds, 5)]

datetime_combine(d, t) ==
    [year |-> d.year, month |-> d.month, day |-> d.day,
     hour |-> t.hour, minute |-> t.minute, second |-> t.second]

NoDate == [year |-> 0, month |-> 0, day |-> 0]

\* log_date kept from the first file instead of being set for every file
StaleLogDate(old, filename) ==
    IF old = NoDate THEN date_fromisoformat(filename.date) ELSE old

\* log_date = date.fromisoformat(LOG_FILENAME_FORMAT.fullmatch(filename).group('date'))
NextLogDate(old, filename) == date_fromisoformat(filename.date)

(***************************************************************************)
(* Log lines.                                                              *)
(***************************************************************************)
Line(stamp, source, head, tail) ==
    [stamp |-> stamp, source |-> source, head |-> head, tail |-> tail]

Word(name)  == [form |-> "word",  name |-> name]
Angle(name) == [form |-> "angle", name |-> name]
LongWord    == [form |-> "long",  name |-> "Steve_the_seventeenth"]

Stamps == { <<1,4,2,2,0,1>>, <<2,5,0,0,0,0>>, <<1,2,6,1,0,0>> }

Heads == { Word("Steve"), Word("Done"), Word("Loading"),
           Angle("Steve"), Angle("Done"), LongWord }

Tails == { <<"joined the game">>, <<"left the game">>,
           <<"has made the advancement", "Stone Age">>,
           <<"has reached the goal", "">>,
           <<"fell from a high place">>,
           <<"dimension data">> }

\* Every line that begins with the marker: the entries a classifier can be given.
StampedLines ==
    { Line(st, so, h, t) : st \in Stamps, so \in {"INFO", "WARN"},
                           h \in Heads, t \in Tails }

\* A physical line that does not begin with the marker (a stack-trace line).
TraceLine == Line(<< >>, "none", LongWord, <<"at java.lang.Thread.run">>)

\* The lines the logs of the whole-run specification are made of.
LogLines ==
    { Line(<<1,4,2,2,0,1>>, "INFO", Word("Steve"),  <<"joined the game">>),
      Line(<<1,4,2,2,0,1>>, "INFO", Angle("Steve"), <<"fell from a high place">>),
      Line(<<2,5,0,0,0,0>>, "INFO", Word("Steve"),  <<"joined the game">>),
      TraceLine }

RECURSIVE SeqsUpTo(_, _)
SeqsUpTo(S, n) ==
    IF n = 0 THEN { << >> }
    ELSE LET shorter == SeqsUpTo(S, n - 1)
         IN  shorter \cup { Append(s, x) : s \in { t \in shorter : Len(t) = n - 1 }, x \in S }

LogTexts == SeqsUpTo(LogLines, MaxLines)

(***************************************************************************)
(* The patterns.  Each is used with match(): anchored at the start of the  *)
(* entry, free at its end.                                                 *)
(***************************************************************************)
\* \[(?P<time>\d{2}:\d{2}:\d{2})\] \[Server thread\/INFO\] \[...DedicatedServer\]:
ServerPrefix(entry) == entry.stamp # << >> /\ entry.source = "INFO"

\* ... (?P<player>\w{1,16}) joined the game
JOIN_FORMAT(entry) ==
    ServerPrefix(entry) /\ entry.head.form = "word" /\ entry.tail[1] = "joined the game"

\* ... (?P<player>\w{1,16}) left the game
LEAVE_FORMAT(entry) ==
    ServerPrefix(entry) /\ entry.head.form = "word" /\ entry.tail[1] = "left the game"

AdvancementPhrases ==
    { "has made the advancement", "has completed the challenge", "has reached the goal" }

\* ... (?P<player>\w{1,16}) has (made the advancement|...) \[(?P<advancement>[^\]]+)\]
ADVANCEMENT_FORMAT(entry) ==
    /\ ServerPrefix(entry)
    /\ entry.head.form = "word"
    /\ Len(entry.tail) = 2
    /\ entry.tail[1] \in AdvancementPhrases
    /\ entry.tail[2] # ""

\* ... (?P<player>\w{1,16}) (?P<cause>.*)
DEATH_FORMAT(entry) == ServerPrefix(entry) /\ entry.head.form = "word"

\* ... <(?P<player>\w{1,16})> (?P<message>.*)
MESSAGE_FORMAT(entry) == ServerPrefix(entry) /\ entry.head.form = "angle"

\* the denylist with two of its words forgotten
NOT_PLAYERS_Short ==
    { "Starting", "Default", "Generating", "Preparing", "Successfully", "Saved",
      "Stopping", "There", "Added", "You", "Unknown", "Config", "Use" }

NOT_PLAYERS ==
    { "Starting", "Loading", "Default", "Generating", "Preparing", "Done",
      "Successfully", "Saved", "Stopping", "There", "Added", "You", "Unknown",
      "Config", "Use" }

(***************************************************************************)
(* Events and the classification of one entry (the if/elif chain).         *)
(***************************************************************************)
Event(cls, t, player, detail) ==
    [cls |-> cls, time |-> t, player |-> player, detail |-> detail]

NoEvent == Event("none", datetime_combine(NoDate, time_fromisoformat(<<0,0,0,0,0,0>>)), "", << >>)

Appended(ev) == [kind |-> "event", ev |-> ev]
Skipped      == [kind |-> "skip",  ev |-> NoEvent]
Raised       == [kind |-> "error", ev |-> NoEvent]

\* datetime.combine(log_date, time.fromisoformat(m.group('time'))) inside the
\* constructor call: the ValueError of an impossible time leaves the chain.
Timed(entry, d, cls, detail) ==
    IF TimeIsValid(entry.stamp)
    THEN Appended(Event(cls, datetime_combine(d, time_fromisoformat(entry.stamp)),
                        entry.head.name, detail))
    ELSE Raised

\* the chain with the generic pattern tried before the specific ones
ClassifyDeathFirst(entry, d) ==
    IF DEATH_FORMAT(entry)
    THEN IF entry.head.name \in NOT_PLAYERS
         THEN Skipped
         ELSE Timed(entry, d, "PlayerDeath", entry.tail)
    ELSE IF JOIN_FORMAT(entry) THEN Timed(entry, d, "PlayerJoinLeave", <<"join">>)
    ELSE IF LEAVE_FORMAT(entry) THEN Timed(entry, d, "PlayerJoinLeave", <<"leave">>)
    ELSE IF ADVANCEMENT_FORMAT(entry)
         THEN Timed(entry, d, "PlayerAdvancement", <<entry.tail[2]>>)
    ELSE IF MESSAGE_FORMAT(entry) THEN Timed(entry, d, "PlayerMessage", entry.tail)
    ELSE Skipped

Classify(entry, d) ==
    IF JOIN_FORMAT(entry) THEN Timed(entry, d, "PlayerJoinLeave", <<"join">>)
    ELSE IF LEAVE_FORMAT(entry) THEN Timed(entry, d, "PlayerJoinLeave", <<"leave">>)
    ELSE IF ADVANCEMENT_FORMAT(entry)
         THEN Timed(entry, d, "PlayerAdvancement", <<entry.tail[2]>>)
    ELSE IF DEATH_FORMAT(entry)
         THEN IF entry.head.name \in NOT_PLAYERS
              THEN Skipped
              ELSE Timed(entry, d, "PlayerDeath", entry.tail)
    ELSE IF MESSAGE_FORMAT(entry) THEN Timed(entry, d, "PlayerMessage", entry.tail)
    ELSE Skipped

\* LOG_ENTRY_FORMAT.findall(log): \n(\[\d{2}:\d{2}:\d{2}\] .*) -- a line that
\* follows a newline and begins with the marker, up to the end of that line.
IsEntryStart(line) == line.stamp # << >>

FindAllEntries(text) ==
    IF Len(text) <= 1 THEN << >> ELSE SelectSeq(Tail(text), IsEntryStart)

(***************************************************************************)
(* The CSV export.                                                         *)
(***************************************************************************)
CSV_FILES ==
    << <<"joins_leaves.csv", "PlayerJoinLeave">>,
       <<"advancements.csv", "PlayerAdvancement">>,
       <<"deaths.csv",       "PlayerDeath">>,
       <<"messages.csv",     "PlayerMessage">> >>

CsvNames == { CSV_FILES[i][1] : i \in DOMAIN CSV_FILES }

\* entry_type._fields, one cell per field name
Fields(cls) ==
    IF cls = "PlayerJoinLeave" THEN << <<"time">>, <<"player">>, <<"type">> >>
    ELSE IF cls = "PlayerAdvancement" THEN << <<"time">>, <<"player">>, <<"advancement">> >>
    ELSE IF cls = "PlayerDeath" THEN << <<"time">>, <<"player">>, <<"cause">> >>
    ELSE << <<"time">>, <<"player">>, <<"message">> >>

Pad2(n) == << n \div 10, n % 10 >>
Pad4(n) == << n \div 1000, (n \div 100) % 10, (n \div 10) % 10, n % 10 >>

\* str(datetime), which csv.writer applies to the time field: YYYY-MM-DD HH:MM:SS
FormatDateTime(t) ==
    Pad4(t.year) \o <<"-">> \o Pad2(t.month) \o <<"-">> \o Pad2(t.day) \o <<" ">> \o
    Pad2(t.hour) \o <<":">> \o Pad2(t.minute) \o <<":">> \o Pad2(t.second)

\* the row csv.writer writes for one event: its fields in declaration order
Row(ev) == << FormatDateTime(ev.time), <<ev.player>>, ev.detail >>

Rows(evs) == [i \in 1..Len(evs) |-> Row(evs[i])]

\* filter(lambda r: type(r) is entry_type, event_stream)
OfType(cls, stream) == SelectSeq(stream, LAMBDA r : r.cls = cls)

\* open(path, 'a') in place of 'w': the earlier rows stay
OpenAppend(old, rows) == old \o rows

\* open(path, 'w') and the writes: the earlier content is discarded
OpenWrite(old, rows) == rows

OldContent(files, name) == IF name \in DOMAIN files THEN files[name] ELSE << >>

CsvContent(cls, stream) == << Fields(cls) >> \o Rows(OfType(cls, stream))

\* the loop over CSV_FILES
WriteCsvFiles(files, stream) ==
    [ name \in CsvNames |->
        LET i == CHOOSE j \in DOMAIN CSV_FILES : CSV_FILES[j][1] = name
        IN  OpenWrite(OldContent(files, name), CsvContent(CSV_FILES[i][2], stream)) ]

NoFiles == [ name \in {} |-> << >> ]

(***************************************************************************)
(* The run.                                                                *)
(***************************************************************************)
Init ==
    /\ LOG_DIRECTORY \in {"unset", "missing", "logs"}
    /\ dir \in { S \in SUBSET FileNames : Cardinality(S) <= MaxFiles }
    /\ LOG_DIRECTORY = "missing" => dir = {}
    /\ pc = "start"
    /\ error = ""
    /\ log_files = << >>
    /\ file_pos = 0
    /\ log_date = NoDate
    /\ log = << >>
    /\ log_entries = << >>
    /\ entry_pos = 0
    /\ event_stream = << >>
    /\ origin = << >>
    /\ output = NoFiles

Abort(e) == pc' = "aborted" /\ error' = e

\* os.listdir(LOG_DIRECTORY), with None listing the working directory, then
\* the filter on LOG_FILENAME_FORMAT and sorted()
ListDir ==
    /\ pc = "start"
    /\ IF LOG_DIRECTORY = "missing"
       THEN Abort("FileNotFoundError") /\ UNCHANGED log_files
       ELSE /\ log_files' = sorted({ x \in dir : LOG_FILENAME_FORMAT(x) })
            /\ pc' = "next_file"
            /\ UNCHANGED error
    /\ UNCHANGED << LOG_DIRECTORY, dir, file_pos, log_date, log, log_entries,
                    entry_pos, event_stream, origin, output >>

\* the head of one iteration of the file loop: the date of the name, the
\* path, the read and decode, findall
OpenSource ==
    /\ pc = "next_file"
    /\ file_pos < Len(log_files)
    /\ file_pos' = file_pos + 1
    /\ LET filename == log_files[file_pos + 1] IN
         IF ~DateIsValid(filename.date)
         THEN Abort("ValueError: date") /\ UNCHANGED << log_date, log, log_entries, entry_pos >>
         ELSE /\ log_date' = NextLogDate(log_date, filename)
              /\ IF LOG_DIRECTORY = "unset"
                 THEN Abort("TypeError") /\ UNCHANGED << log, log_entries, entry_pos >>
                 ELSE /\ \E text \in LogTexts :
                            /\ log' = text
                            /\ log_entries' = FindAllEntries(text)
                      /\ entry_pos' = 0
                      /\ pc' = "classify"
                      /\ UNCHANGED error
    /\ UNCHANGED << LOG_DIRECTORY, dir, log_files, event_stream, origin, output >>

\* the same head when gzip.open, read or decode raises
ReadFails ==
    /\ pc = "next_file"
    /\ file_pos < Len(log_files)
    /\ DateIsValid(log_files[file_pos + 1].date)
    /\ LOG_DIRECTORY = "logs"
    /\ file_pos' = file_pos + 1
    /\ log_date' = NextLogDate(log_date, log_files[file_pos + 1])
    /\ Abort("OSError")
    /\ UNCHANGED << LOG_DIRECTORY, dir, log_files, log, log_entries, entry_pos,
                    event_stream, origin, output >>

\* one iteration of the entry loop
ClassifyEntry ==
    /\ pc = "classify"
    /\ entry_pos < Len(log_entries)
    /\ entry_pos' = entry_pos + 1
    /\ LET entry == log_entries[entry_pos + 1]
           r     == Classify(entry, log_date)
       IN  IF r.kind = "error"
           THEN Abort("ValueError: time") /\ UNCHANGED << event_stream, origin >>
           ELSE /\ event_stream' = IF r.kind = "event" THEN Append(event_stream, r.ev)
                                                       ELSE event_stream
                /\ origin' = IF r.kind = "event"
                             THEN Append(origin, [file |-> file_pos, entry |-> entry_pos + 1,
                                                  stamp |-> entry.stamp])
                             ELSE origin
                /\ UNCHANGED << pc, error >>
    /\ UNCHANGED << LOG_DIRECTORY, dir, log_files, file_pos, log_date, log,
                    log_entries, output >>

\* the export moved out of the file loop: it writes after the last file only
ExportAtEndOnly ==
    /\ pc = "classify"
    /\ entry_pos = Len(log_entries)
    /\ output' = IF file_pos = Len(log_files) THEN WriteCsvFiles(output, event_stream)
                                              ELSE output
    /\ pc' = "next_file"
    /\ UNCHANGED << LOG_DIRECTORY, dir, error, log_files, file_pos, log_date, log,
                    log_entries, entry_pos, event_stream, origin >>

\* the export at the end of one iteration of the file loop
Export ==
    /\ pc = "classify"
    /\ entry_pos = Len(log_entries)
    /\ output' = WriteCsvFiles(output, event_stream)
    /\ pc' = "next_file"
    /\ UNCHANGED << LOG_DIRECTORY, dir, error, log_files, file_pos, log_date, log,
                    log_entries, entry_pos, event_stream, origin >>

\* the file loop is exhausted
Finish ==
    /\ pc = "next_file"
    /\ file_pos = Len(log_files)
    /\ pc' = "done"
    /\ UNCHANGED << LOG_DIRECTORY, dir, error, log_files, file_pos, log_date, log,
                    log_entries, entry_pos, event_stream, origin, output >>

Next == ListDir \/ OpenSource \/ ReadFails \/ ClassifyEntry \/ Export \/ Finish

Spec == Init /\ [][Next]_vars

(***************************************************************************)
(* The classifier alone: the run stands in the entry loop of a file with   *)
(* one entry, drawn from every stamped line, and classifies it.            *)
(***************************************************************************)
InitClassify ==
    /\ LOG_DIRECTORY = "logs"
    /\ \E x \in { y \in FileNames : LOG_FILENAME_FORMAT(y) /\ DateIsValid(y.date) } :
          /\ dir = {x}
          /\ log_files = <<x>>
          /\ log_date = NextLogDate(NoDate, x)
    /\ pc = "classify"
    /\ error = ""
    /\ file_pos = 1
    /\ \E e \in StampedLines :
          /\ log = << TraceLine, e >>
          /\ log_entries = << e >>
    /\ entry_pos = 0
    /\ event_stream = << >>
    /\ origin = << >>
    /\ output = NoFiles

NextClassify == ClassifyEntry

SpecClassify == InitClassify /\ [][NextClassify]_vars

(***************************************************************************)
(* Vocabulary of the properties.                                           *)
(***************************************************************************)
\* a step of the entry loop, and the entry it consumes
EntryStep    == pc = "classify" /\ entry_pos' = entry_pos + 1
CurrentEntry == log_entries[entry_pos + 1]

PatternOrder == << "join", "leave", "advancement", "death", "message" >>

PatternMatches(kind, entry) ==
    IF kind = "join" THEN JOIN_FORMAT(entry)
    ELSE IF kind = "leave" THEN LEAVE_FORMAT(entry)
    ELSE IF kind = "advancement" THEN ADVANCEMENT_FORMAT(entry)
    ELSE IF kind = "death" THEN DEATH_FORMAT(entry)
    ELSE MESSAGE_FORMAT(entry)

FirstMatch(entry) ==
    LET hits == { i \in DOMAIN PatternOrder : PatternMatches(PatternOrder[i], entry) }
    IN  IF hits = {} THEN "none"
        ELSE PatternOrder[CHOOSE i \in hits : \A j \in hits : i <= j]

EventKind(ev) ==
    IF ev.cls = "PlayerJoinLeave" THEN ev.detail[1]
    ELSE IF ev.cls = "PlayerAdvancement" THEN "advancement"
    ELSE IF ev.cls = "PlayerDeath" THEN "death"
    ELSE "message"

\* the denylist as the specification lists it
DenylistWords ==
    { "Starting", "Loading", "Default", "Generating", "Preparing", "Done",
      "Successfully", "Saved", "Stopping", "There", "Added", "You", "Unknown",
      "Config", "Use" }

LeadsWithDenylistWord(entry) ==
    ServerPrefix(entry) /\ entry.head.form = "word" /\ entry.head.name \in DenylistWords

MatchesSomePattern(entry) == FirstMatch(entry) # "none"

\* the date of a file name as a number that orders dates chronologically
DateKey(x) == Num4(x.date, 1) * 10000 + Num2(x.date, 5) * 100 + Num2(x.date, 7)

\* the events that came from the first k sources
FromFirst(k) ==
    LET keep == { i \in 1..Len(event_stream) : origin[i].file <= k }
    IN  [ n \in 1..Cardinality(keep) |->
            event_stream[CHOOSE i \in keep : Cardinality({ j \in keep : j <= i }) = n] ]

\* the four files with the header each must carry
ExpectedFiles ==
    { << "joins_leaves.csv", "PlayerJoinLeave",   << <<"time">>, <<"player">>, <<"type">> >> >>,
      << "advancements.csv", "PlayerAdvancement", << <<"time">>, <<"player">>, <<"advancement">> >> >>,
      << "deaths.csv",       "PlayerDeath",       << <<"time">>, <<"player">>, <<"cause">> >> >>,
      << "messages.csv",     "PlayerMessage",     << <<"time">>, <<"player">>, <<"message">> >> >> }

\* the files on disk are the export of the event sequence evs: each of the
\* four files is its header and then the row of every event of its kind, the
\* n-th such event in row n + 1, and nothing else
HoldsExportOf(evs) ==
    /\ DOMAIN output = { f[1] : f \in ExpectedFiles }
    /\ \A f \in ExpectedFiles :
         LET content == output[f[1]]
             mine    == { i \in 1..Len(evs) : evs[i].cls = f[2] }
         IN  /\ Len(content) = 1 + Cardinality(mine)
             /\ content[1] = f[3]
             /\ \A i \in mine :
                  content[1 + Cardinality({ j \in mine : j <= i })] = Row(evs[i])

\* number of iterations of the file loop that ran to their end
Completed ==
    IF pc \in {"next_file", "done"} THEN file_pos
    ELSE IF file_pos = 0 THEN 0 ELSE file_pos - 1

(***************************************************************************)
(* The properties.                                                         *)
(***************************************************************************)

\* C1: a step of the entry loop appends at most one event; an appended event
\* has the kind of the first of join, leave, advancement, death, message
\* whose pattern matches the entry; an entry that matches none appends nothing.
C1_FirstMatchWins ==
    [][ EntryStep =>
          /\ \/ event_stream' = event_stream
             \/ /\ Len(event_stream') = Len(event_stream) + 1
                /\ SubSeq(event_stream', 1, Len(event_stream)) = event_stream
                /\ EventKind(event_stream'[Len(event_stream')]) = FirstMatch(CurrentEntry)
          /\ FirstMatch(CurrentEntry) = "none" => event_stream' = event_stream ]_vars

\* C1 witness: an entry that matches both the join and the generic pattern
\* has been classified and is in the stream as a join.
C1_Witness ==
    /\ entry_pos = 1
    /\ JOIN_FORMAT(log_entries[1]) /\ DEATH_FORMAT(log_entries[1])
    /\ Len(event_stream) = 1
    /\ EventKind(event_stream[1]) = "join"

\* C2 as stated: an entry whose leading token is a denylist word produces no
\* event of any kind, whatever follows the token.
C2_DenylistNeverEmits ==
    [][ (EntryStep /\ LeadsWithDenylistWord(CurrentEntry))
          => event_stream' = event_stream ]_vars

\* C2 amended: an entry whose leading token is a denylist word and which
\* matches none of the join, leave and advancement patterns produces no event
\* and raises no error, whatever follows the token and whatever its time.
C2_DenylistNeverEmitsDeath ==
    [][ (/\ EntryStep
         /\ LeadsWithDenylistWord(CurrentEntry)
         /\ ~JOIN_FORMAT(CurrentEntry)
         /\ ~LEAVE_FORMAT(CurrentEntry)
         /\ ~ADVANCEMENT_FORMAT(CurrentEntry))
          => event_stream' = event_stream /\ pc' = "classify" ]_vars

\* C2 witness: a denylist-led entry that the generic pattern matches, with an
\* impossible time, has been consumed; the stream is empty and the run goes on.
C2_Witness ==
    /\ entry_pos = 1
    /\ LeadsWithDenylistWord(log_entries[1])
    /\ FirstMatch(log_entries[1]) = "death"
    /\ ~TimeIsValid(log_entries[1].stamp)
    /\ event_stream = << >>
    /\ pc = "classify"

\* C3 as stated: an entry that matches a pattern but carries an impossible
\* time of day appends no event and raises no error; the run continues.
C3_BadTimeIsSkipped ==
    [][ (EntryStep /\ MatchesSomePattern(CurrentEntry) /\ ~TimeIsValid(CurrentEntry.stamp))
          => event_stream' = event_stream /\ pc' = "classify" /\ error' = "" ]_vars

\* C4: the stream is in arrival order: an event of a source with an earlier
\* file-name date precedes every event of a source with a later one, and two
\* events of one source are in the order of their entries.
C4_ArrivalOrder ==
    \A j \in 1..Len(event_stream) : \A i \in j..Len(event_stream) :
        \* i does not precede j: then neither is i's source dated earlier than
        \* j's, nor is i's entry an earlier entry of the same source
        /\ ~(DateKey(log_files[origin[i].file]) < DateKey(log_files[origin[j].file]))
        /\ ~(origin[i].file = origin[j].file /\ origin[i].entry < origin[j].entry)

\* C4 witness: two events of one source followed by an event of a source
\* with a later date.
C4_Witness ==
    /\ Len(event_stream) = 3
    /\ origin[1].file = 1 /\ origin[2].file = 1 /\ origin[3].file = 2
    /\ origin[1].entry < origin[2].entry
    /\ DateKey(log_files[1]) < DateKey(log_files[2])

\* C5 as stated: every physical line that begins with the marker, the first
\* line of the text included, starts exactly one entry given to the
\* classifier, and no other line starts one.
C5_EveryStampedLineIsAnEntry ==
    pc = "classify" => log_entries = SelectSeq(log, IsEntryStart)

\* C6: after an export each of the four files is the header of its kind and
\* then one row per event of that kind in the stream, in the stream's order,
\* with no other row.
C6_ExportIsExact ==
    (pc \in {"next_file", "done"} /\ file_pos >= 1) => HoldsExportOf(event_stream)

\* C6 witness: the second export has run over a stream of several kinds, so
\* files with rows have been written again.
C6_Witness ==
    /\ pc = "next_file"
    /\ file_pos = 2
    /\ \E i, j \in 1..Len(event_stream) :
         /\ origin[i].file = 1 /\ origin[j].file = 2
         /\ event_stream[i].cls # event_stream[j].cls
    /\ HoldsExportOf(event_stream)

\* C7 as stated: with LOG_DIRECTORY unset the run fails at once with a
\* configuration error, before any directory is listed or file read, and
\* writes no output.
C7_UnsetDirectoryFailsAtOnce ==
    LOG_DIRECTORY = "unset" =>
        /\ pc \in {"start", "aborted"}
        /\ pc = "aborted" => error = "ConfigurationError"
        /\ file_pos = 0
        /\ output = NoFiles

\* C8 as stated: a file whose name is not YYYY-MM-DD-<N>.log.gz with a real
\* calendar date is left out of the source list and raises no error.
C8_UnparseableNameIsExcluded ==
    pc # "start" =>
        /\ \A x \in dir :
             ~(LOG_FILENAME_FORMAT(x) /\ DateIsValid(x.date)) =>
                 \A k \in DOMAIN log_files : log_files[k] # x
        /\ error # "ValueError: date"

\* C9: every event of the stream is stamped with the date in the name of the
\* file its entry came from and the time written in that entry: printed as
\* YYYY-MM-DD HH:MM:SS, its digits are those of the name and of the marker.
C9_TimestampIsFileDateAndEntryTime ==
    \A i \in 1..Len(event_stream) :
        LET text == FormatDateTime(event_stream[i].time)
            date == log_files[origin[i].file].date
            hms  == origin[i].stamp
        IN  /\ SubSeq(text, 1, 4)   = SubSeq(date, 1, 4)
            /\ SubSeq(text, 6, 7)   = SubSeq(date, 5, 6)
            /\ SubSeq(text, 9, 10)  = SubSeq(date, 7, 8)
            /\ SubSeq(text, 12, 13) = SubSeq(hms, 1, 2)
            /\ SubSeq(text, 15, 16) = SubSeq(hms, 3, 4)
            /\ SubSeq(text, 18, 19) = SubSeq(hms, 5, 6)

\* C9 witness: the stream holds events of two sources with different dates.
C9_Witness ==
    \E i, j \in 1..Len(event_stream) :
        /\ origin[i].file = 1 /\ origin[j].file = 2
        /\ log_files[1].date # log_files[2].date
        /\ event_stream[i].time # event_stream[j].time

\* C10: at every point of a run, aborted or not, the output is the export of
\* the events of the sources whose iteration ran to its end, and there is no
\* output file while no iteration has.
C10_OutputIsExportOfCompletedSources ==
    IF Completed = 0 THEN output = NoFiles ELSE HoldsExportOf(FromFirst(Completed))

\* C10 witness: the run aborted in its second source after appending an event
\* of that source, with events of the first source exported.
C10_Witness ==
    /\ pc = "aborted"
    /\ file_pos = 2
    /\ \E i, j \in 1..Len(event_stream) : origin[i].file = 1 /\ origin[j].file = 2
    /\ HoldsExportOf(FromFirst(1))

====
